---- MODULE Spec2Model ----
(***************************************************************************)
(* Model of the two Blender add-on scripts of AIRES-x1:                    *)
(*   blender_robot_link.py  (Link Stage, one sensor -> one bone)           *)
(*   v1.py                  (Retarget Stage, two sensors -> six joints)    *)
(* Both scripts share the same skeleton: a receiver thread                 *)
(* (read_serial_thread) filling the module global latest_data, and a modal *)
(* operator (execute / modal / cancel) run by the host's event loop.       *)
(*                                                                         *)
(* Angles are integers in units of a quarter turn (pi/2 rad); quaternions  *)
(* are 4-tuples of integers (to_euler normalises, so (1,0,0,1) is a        *)
(* quarter turn about Z).                                                  *)
(***************************************************************************)
EXTENDS Integers, Sequences, FiniteSets, TLC

\* ---------------------------------------------------------------- bounds
MaxThreads == 2      \* receiver threads alive at the same time
MaxWarnings == 2     \* missing-bone warnings counted (saturating)
MaxTimers  == 2      \* window timers registered at the same time
MaxPackets == 2      \* packets counted by packet_count

\* the warning is printed only while packet_count < 5
WarnPacketLimit == 5

\* --------------------------------------------------------- configuration
BONE_MAP == (0 :> "UpperArm.008" @@ 1 :> "UpperArm.021")

Identity == <<1, 0, 0, 0>>

\* BONE_OFFSETS: Euler((0,0,0),'XYZ') for both sensors; Euler.to_quaternion()
\* of the zero triple is the identity quaternion.
BONE_OFFSETS == (0 :> <<0, 0, 0>> @@ 1 :> <<0, 0, 0>>)

JOINT_MAP ==
  << [joint |-> "Base",     bone |-> "UpperArm.008", axis |-> "Z"],
     [joint |-> "Shoulder", bone |-> "UpperArm.015", axis |-> "X"],
     [joint |-> "Elbow",    bone |-> "UpperArm.018", axis |-> "X"],
     [joint |-> "Wrist",    bone |-> "UpperArm.019", axis |-> "Y"],
     [joint |-> "Wrist_2",  bone |-> "UpperArm.020", axis |-> "X"],
     [joint |-> "Gripper",  bone |-> "UpperArm.021", axis |-> "Y"] >>

JointNames == { JOINT_MAP[n].joint : n \in 1..Len(JOINT_MAP) }

\* home angles in degrees
INITIAL_POSE == [j \in JointNames |-> 0]

IMU_SHOULDER_ID == 1
IMU_FOREARM_ID  == 0

AllBones == { JOINT_MAP[n].bone : n \in 1..Len(JOINT_MAP) }

\* ------------------------------------------------------- pure functions
Abs(n) == IF n < 0 THEN -n ELSE n

\* math.radians on the home angles, in quarter turns (90 degrees each)
radians(deg) == deg \div 90

\* Quaternion product a @ b (Hamilton product)
QMul(a, b) ==
  << a[1]*b[1] - a[2]*b[2] - a[3]*b[3] - a[4]*b[4],
     a[1]*b[2] + a[2]*b[1] + a[3]*b[4] - a[4]*b[3],
     a[1]*b[3] - a[2]*b[4] + a[3]*b[1] + a[4]*b[2],
     a[1]*b[4] + a[2]*b[3] - a[3]*b[2] + a[4]*b[1] >>

\* Euler.to_quaternion() for an 'XYZ' triple of quarter turns; only the
\* zero triple is configured
EulerToQuat(e) == IF e = <<0, 0, 0>> THEN Identity ELSE <<0, 0, 0, 0>>

\* the fixed relabelling Quaternion((w, y, x, -z))
Relabel(q) == << q[1], q[3], q[2], -q[4] >>

\* atan2 in quarter turns, for arguments of which at most one is non-zero
Atan2(y, x) ==
  CASE y > 0 -> 1
    [] y < 0 -> -1
    [] y = 0 /\ x < 0 -> 2
    [] OTHER -> 0

\* rotation matrix of q scaled by |q|^2 (m[col][row] as in the host library)
QuatToMat(q) ==
  LET n == q[1]*q[1] + q[2]*q[2] + q[3]*q[3] + q[4]*q[4]
      w == q[1]  x == q[2]  y == q[3]  z == q[4]
  IN  << << n - 2*(y*y + z*z), 2*(w*z + x*y),       2*(x*z - w*y) >>,
         << 2*(x*y - w*z),     n - 2*(x*x + z*z),   2*(w*x + y*z) >>,
         << 2*(w*y + x*z),     2*(y*z - w*x),       n - 2*(x*x + y*y) >> >>

\* Quaternion.to_euler('ZYX'): the triple <<x, y, z>> (roll, pitch, yaw).
\* Axis order i=Z, j=Y, k=X with odd parity; of the two candidate triples
\* the one with the smaller absolute sum is returned.
to_euler(q) ==
  LET m  == QuatToMat(q)
      M(a, b) == m[a + 1][b + 1]
      cy == Abs(M(2, 2)) + Abs(M(2, 1))
      e1 == IF cy > 0
            THEN << Atan2(M(2, 1), M(2, 2)), Atan2(-M(2, 0), cy), Atan2(M(1, 0), M(0, 0)) >>
            ELSE << 0, Atan2(-M(2, 0), cy), Atan2(-M(0, 1), M(1, 1)) >>
      e2 == IF cy > 0
            THEN << Atan2(-M(2, 1), -M(2, 2)), Atan2(-M(2, 0), -cy), Atan2(-M(1, 0), -M(0, 0)) >>
            ELSE e1
      d1 == Abs(e1[1]) + Abs(e1[2]) + Abs(e1[3])
      d2 == Abs(e2[1]) + Abs(e2[2]) + Abs(e2[3])
      e  == IF d1 > d2 THEN e2 ELSE e1
  IN  << -e[1], -e[2], -e[3] >>

\* variant of TargetAngles that takes the forearm angles as they are, without
\* subtracting the shoulder's
TargetAnglesNoDiff(imu1_euler, imu2_euler) ==
  [j \in JointNames |->
     CASE j = "Base"     -> imu1_euler[3]
       [] j = "Shoulder" -> imu1_euler[2]
       [] j = "Elbow"    -> imu2_euler[2]
       [] j = "Wrist"    -> imu2_euler[1]
       [] j = "Wrist_2"  -> 0
       [] j = "Gripper"  -> imu2_euler[1]]

\* the six target angles of the logic table, from the two Euler triples
TargetAngles(imu1_euler, imu2_euler) ==
  LET imu1_yaw   == imu1_euler[3]
      imu1_pitch == imu1_euler[2]
      imu1_roll  == imu1_euler[1]
      imu2_pitch == imu2_euler[2]
      imu2_roll  == imu2_euler[1]
  IN  [j \in JointNames |->
        CASE j = "Base"     -> imu1_yaw
          [] j = "Shoulder" -> imu1_pitch
          [] j = "Elbow"    -> imu2_pitch - imu1_pitch
          [] j = "Wrist"    -> imu2_roll - imu1_roll
          [] j = "Wrist_2"  -> 0
          [] j = "Gripper"  -> imu2_roll]

\* ------------------------------------------------------------ the scene
\* The host scene holds one object: its name, its type and, for a rig, the
\* pose bones it has.  "Rig" is reached through the active-object path,
\* "Armature" also through the fallback by name.  The scene is fixed for a
\* behaviour: objects are not renamed or deleted while the add-on is used.
Scenes ==
  { [name |-> "Rig", type |-> "ARMATURE", boneset |-> AllBones],
    [name |-> "Armature", type |-> "ARMATURE", boneset |-> AllBones \ {"UpperArm.008"}],
    [name |-> "Armature", type |-> "MESH", boneset |-> {}] }

\* a pose bone in rest pose (the host's default rotation mode is QUATERNION)
RestBone == [rotation_mode |-> "QUATERNION",
             rotation_quaternion |-> Identity,
             rotation_euler |-> <<0, 0, 0>>]

\* ------------------------------------------------------ the serial input
\* quaternions the sensors send, and a "q" that is not a 4-element list
ValidQ == { <<1, 1, 0, 0>>, <<1, 1, 1, 1>> }
ShortQ == <<1, 0, 0>>

ObjLine(i, q) == [kind |-> "obj", has_id |-> TRUE, has_q |-> TRUE, id |-> i, q |-> q]

\* the lines readline() can deliver
Lines ==
  { ObjLine(s, q) : s \in {0, 1}, q \in ValidQ }
  \cup { ObjLine(s, ShortQ) : s \in {0, 1} }
  \cup { [kind |-> "obj", has_id |-> FALSE, has_q |-> TRUE, id |-> 0, q |-> Identity],
         [kind |-> "obj", has_id |-> TRUE, has_q |-> FALSE, id |-> 0, q |-> Identity],
         [kind |-> "badjson", has_id |-> FALSE, has_q |-> FALSE, id |-> 0, q |-> Identity],
         [kind |-> "nobrace", has_id |-> FALSE, has_q |-> FALSE, id |-> 0, q |-> Identity],
         [kind |-> "undecodable", has_id |-> FALSE, has_q |-> FALSE, id |-> 0, q |-> Identity] }

\* ------------------------------------------------------------- the state
VARIABLES
  stage,         \* "link" (blender_robot_link.py) or "retarget" (v1.py)
  scene,         \* the scene object: its name and type
  bones,         \* pose bones of the scene's rig: bone name -> rotation fields
  is_running,    \* the run flag
  latest_data,   \* the orientation store: sensor id -> "q" value
  packet_count,  \* packets stored so far
  receivers,     \* live receiver threads per position in read_serial_thread,
                 \* and leaked: a thread has ended with its port still open
  ops,           \* operator instances holding a modal handler, newest first
  timers,        \* window timers registered with the window manager
  written,       \* history: bones written by a tick / by the home reset
  warnings,      \* history: missing-bone warnings printed (saturating)
  lastEvent      \* history: the last step taken ("receiver": a receiver step
                 \* that is none of the named ones)

vars == << stage, scene, bones, is_running, latest_data, packet_count,
           receivers, ops, timers, written, warnings, lastEvent >>

hostVars == << bones, ops, timers, written, warnings >>

EmptyStore == [k \in {} |-> Identity]

Put(f, k, v) == [x \in (DOMAIN f) \cup {k} |-> IF x = k THEN v ELSE f[x]]

Init ==
  /\ stage \in {"link", "retarget"}
  /\ \E sc \in Scenes :
        /\ scene = [name |-> sc.name, type |-> sc.type]
        /\ bones = [b \in sc.boneset |-> RestBone]
  /\ is_running = FALSE
  /\ latest_data = EmptyStore
  /\ packet_count = 0
  /\ receivers = [open |-> 0, loop |-> 0, body |-> 0, leaked |-> FALSE]
  /\ ops = << >>
  /\ timers = 0
  /\ written = [tick |-> {}, home |-> {}]
  /\ warnings = 0
  /\ lastEvent = "init"

Alive == receivers.open + receivers.loop + receivers.body

\* ------------------------------------------------- read_serial_thread
\* serial.Serial(...) succeeds: the thread reaches the while loop
SerialOpenOk ==
  /\ receivers.open > 0
  /\ receivers' = [receivers EXCEPT !.open = @ - 1, !.loop = @ + 1]
  /\ lastEvent' = "receiver"
  /\ UNCHANGED << stage, scene, is_running, latest_data, packet_count >>
  /\ UNCHANGED hostVars

\* serial.Serial(...) raises: outer except clears the run flag, thread ends
SerialOpenFail ==
  /\ receivers.open > 0
  /\ receivers' = [receivers EXCEPT !.open = @ - 1]
  /\ is_running' = FALSE
  /\ lastEvent' = "open_fail"
  /\ UNCHANGED << stage, scene, latest_data, packet_count >>
  /\ UNCHANGED hostVars

\* variant of LoopTest that does not look at the run flag
LoopTestIgnoresFlag ==
  /\ receivers.loop > 0
  /\ receivers' = [receivers EXCEPT !.loop = @ - 1, !.body = @ + 1]
  /\ lastEvent' = "receiver"
  /\ UNCHANGED << stage, scene, is_running, latest_data, packet_count >>
  /\ UNCHANGED hostVars

\* while is_running: enter the body, or leave the loop, close the port and end
LoopTest ==
  /\ receivers.loop > 0
  /\ receivers' = IF is_running
                    THEN [receivers EXCEPT !.loop = @ - 1, !.body = @ + 1]
                    ELSE [receivers EXCEPT !.loop = @ - 1]
  /\ lastEvent' = "receiver"
  /\ UNCHANGED << stage, scene, is_running, latest_data, packet_count >>
  /\ UNCHANGED hostVars

\* ser.in_waiting raises: outside the inner try, so the outer except runs;
\* the flag is cleared and the thread ends without reaching ser.close():
\* the port it opened stays open
PollError ==
  /\ receivers.body > 0
  /\ receivers' = [receivers EXCEPT !.body = @ - 1, !.leaked = TRUE]
  /\ is_running' = FALSE
  /\ lastEvent' = "poll_error"
  /\ UNCHANGED << stage, scene, latest_data, packet_count >>
  /\ UNCHANGED hostVars

\* ser.in_waiting is 0: next iteration
PollEmpty ==
  /\ receivers.body > 0
  /\ receivers' = [receivers EXCEPT !.body = @ - 1, !.loop = @ + 1]
  /\ lastEvent' = "receiver"
  /\ UNCHANGED << stage, scene, is_running, latest_data, packet_count >>
  /\ UNCHANGED hostVars

\* ser.readline() raises a device error: inside the inner try, so the bare
\* except swallows it and the loop goes on
ReadError ==
  /\ receivers.body > 0
  /\ receivers' = [receivers EXCEPT !.body = @ - 1, !.loop = @ + 1]
  /\ lastEvent' = "read_error"
  /\ UNCHANGED << stage, scene, is_running, latest_data, packet_count >>
  /\ UNCHANGED hostVars

\* variant of Stores without the check for the "id" and "q" keys
StoresNoKeyCheck(line) ==
  line.kind = "obj"

\* does the line reach latest_data[data["id"]] = data["q"] without raising
Stores(line) ==
  /\ line.kind = "obj"
  /\ line.has_id /\ line.has_q

\* variant of StoreAfter that overwrites an entry component by component and
\* is seen half-way: the first two components new, the last two old
StoreAfterTorn(store, line) ==
  IF Stores(line)
    THEN IF line.id \in DOMAIN store /\ Len(store[line.id]) = 4 /\ Len(line.q) = 4
           THEN Put(store, line.id,
                    << line.q[1], line.q[2], store[line.id][3], store[line.id][4] >>)
           ELSE Put(store, line.id, line.q)
    ELSE store

\* the store after the inner try block has handled one line: the list built
\* by json.loads is bound to the key in one dict assignment
StoreAfter(store, line) ==
  IF Stores(line) THEN Put(store, line.id, line.q) ELSE store

CountAfter(count, line) ==
  IF Stores(line) THEN count + 1 ELSE count

\* one line read, decoded, parsed and, if it has both keys, stored
ReadLine(line) ==
  /\ receivers.body > 0
  /\ Stores(line) => packet_count < MaxPackets
  /\ receivers' = [receivers EXCEPT !.body = @ - 1, !.loop = @ + 1]
  /\ latest_data' = StoreAfter(latest_data, line)
  /\ packet_count' = CountAfter(packet_count, line)
  /\ lastEvent' = IF Stores(line) THEN "line_stored" ELSE "line_dropped"
  /\ UNCHANGED << stage, scene, is_running >>
  /\ UNCHANGED hostVars

\* ------------------------------------------------------ the host side
\* bpy.data.objects.get(name)
ObjFound(name) == scene.name = name

\* obj.pose is None for an object that is not a rig: obj.pose.bones raises
HasPose == scene.type = "ARMATURE"

Min(a, b) == IF a < b THEN a ELSE b

SetAxis(e, axis, angle) ==
  CASE axis = "X" -> [e EXCEPT ![1] = angle]
    [] axis = "Y" -> [e EXCEPT ![2] = angle]
    [] axis = "Z" -> [e EXCEPT ![3] = angle]
    [] OTHER -> e

\* The part of the state a handler call works on:
\*   bones, is_running, timers, written, warnings, and err (an exception
\*   has left the handler).

\* variant of LinkSensor that writes the rest rotation for a sensor without
\* an entry instead of skipping it
LinkSensorNoDataCheck(st, sensor_id) ==
  LET bone_name == BONE_MAP[sensor_id]
      data == IF sensor_id \in DOMAIN latest_data THEN latest_data[sensor_id] ELSE Identity
  IN
  IF st.err \/ ~HasPose \/ bone_name \notin DOMAIN st.bones \/ Len(data) # 4 THEN st
  ELSE [st EXCEPT !.bones[bone_name].rotation_mode = "QUATERNION",
                  !.bones[bone_name].rotation_quaternion = Relabel(data),
                  !.written.tick = @ \cup {bone_name}]

\* variant of LinkSensor that applies the entry as it was sent, without the
\* relabelling to (w, y, x, -z)
LinkSensorNoRelabel(st, sensor_id) ==
  LET bone_name == BONE_MAP[sensor_id] IN
  IF st.err \/ sensor_id \notin DOMAIN latest_data THEN st
  ELSE IF ~HasPose THEN [st EXCEPT !.err = TRUE]
  ELSE IF bone_name \in DOMAIN st.bones
    THEN LET data == latest_data[sensor_id] IN
         IF Len(data) # 4 THEN [st EXCEPT !.err = TRUE]
         ELSE [st EXCEPT !.bones[bone_name].rotation_mode = "QUATERNION",
                         !.bones[bone_name].rotation_quaternion =
                             QMul(data, EulerToQuat(BONE_OFFSETS[sensor_id])),
                         !.written.tick = @ \cup {bone_name}]
    ELSE IF packet_count < WarnPacketLimit
           THEN [st EXCEPT !.warnings = Min(@ + 1, MaxWarnings)]
           ELSE st

\* Link Stage, one iteration of "for sensor_id, bone_name in BONE_MAP.items()"
LinkSensor(st, sensor_id) ==
  LET bone_name == BONE_MAP[sensor_id] IN
  IF st.err \/ sensor_id \notin DOMAIN latest_data THEN st
  ELSE IF ~HasPose THEN [st EXCEPT !.err = TRUE]
  ELSE IF bone_name \in DOMAIN st.bones
    THEN LET data == latest_data[sensor_id] IN
         IF Len(data) # 4 THEN [st EXCEPT !.err = TRUE]
         ELSE LET sensor_quat == Relabel(data)
                  offset == BONE_OFFSETS[sensor_id]
                  final_rot == QMul(sensor_quat, EulerToQuat(offset))
              IN [st EXCEPT !.bones[bone_name].rotation_mode = "QUATERNION",
                            !.bones[bone_name].rotation_quaternion = final_rot,
                            !.written.tick = @ \cup {bone_name}]
    ELSE IF packet_count < WarnPacketLimit
           THEN [st EXCEPT !.warnings = Min(@ + 1, MaxWarnings)]
           ELSE st

\* variant of ApplyJoints that leaves the loop at the first joint whose bone
\* the rig lacks
RECURSIVE ApplyJointsStopAtMissing(_, _, _)
ApplyJointsStopAtMissing(st, target_angles, n) ==
  IF n > Len(JOINT_MAP) THEN st
  ELSE LET config == JOINT_MAP[n] IN
       IF config.bone \in DOMAIN st.bones
         THEN ApplyJointsStopAtMissing(
                [st EXCEPT !.bones[config.bone].rotation_mode = "XYZ",
                           !.bones[config.bone].rotation_euler =
                               SetAxis(@, config.axis, target_angles[config.joint]),
                           !.written.tick = @ \cup {config.bone}],
                target_angles, n + 1)
         ELSE st

\* Retarget Stage, "for joint_name, config in JOINT_MAP.items()" from entry n
RECURSIVE ApplyJoints(_, _, _)
ApplyJoints(st, target_angles, n) ==
  IF n > Len(JOINT_MAP) THEN st
  ELSE LET config == JOINT_MAP[n]
           next == IF config.bone \in DOMAIN st.bones
                     THEN [st EXCEPT !.bones[config.bone].rotation_mode = "XYZ",
                                     !.bones[config.bone].rotation_euler =
                                         SetAxis(@, config.axis, target_angles[config.joint]),
                                     !.written.tick = @ \cup {config.bone}]
                     ELSE st
       IN ApplyJoints(next, target_angles, n + 1)

\* cancel(): the home-pose loop of the Retarget Stage from entry n
RECURSIVE ResetJoints(_, _)
ResetJoints(st, n) ==
  IF n > Len(JOINT_MAP) THEN st
  ELSE LET config == JOINT_MAP[n]
           target_rad == radians(INITIAL_POSE[config.joint])
           next == IF config.bone \in DOMAIN st.bones
                     THEN [st EXCEPT !.bones[config.bone].rotation_mode = "XYZ",
                                     !.bones[config.bone].rotation_euler =
                                         SetAxis(@, config.axis, target_rad),
                                     !.written.home = @ \cup {config.bone}]
                     ELSE st
       IN ResetJoints(next, n + 1)

\* cancel(self, context) of the operator instance op
cancel(st, op) ==
  LET stopped == [st EXCEPT !.is_running = FALSE, !.timers = @ - 1] IN
  IF stage = "link" THEN stopped
  ELSE IF ~ObjFound(op._armature_name) THEN stopped
  ELSE IF ~HasPose THEN [stopped EXCEPT !.err = TRUE]
  ELSE ResetJoints(stopped, 1)

\* the shoulder-and-forearm gate of the Retarget Stage
BothPresent(store) ==
  /\ IMU_SHOULDER_ID \in DOMAIN store
  /\ IMU_FOREARM_ID \in DOMAIN store

\* modal(self, context, event) for event.type == 'TIMER'; the result is the
\* state it leaves and what it returns
modalTimer(st, op) ==
  IF stage = "link"
    THEN IF ObjFound(op._armature_name)
           THEN LET st1 == LinkSensor(LinkSensor(st, 0), 1)
                IN [st |-> st1, result |-> IF st1.err THEN "ERROR" ELSE "PASS_THROUGH"]
           ELSE [st |-> cancel(st, op), result |-> "CANCELLED"]
    ELSE IF ObjFound(op._armature_name) /\ BothPresent(latest_data)
           THEN LET q1_raw == latest_data[IMU_SHOULDER_ID]
                    q2_raw == latest_data[IMU_FOREARM_ID]
                IN IF Len(q1_raw) < 4 \/ Len(q2_raw) < 4 \/ ~HasPose
                     THEN [st |-> [st EXCEPT !.err = TRUE], result |-> "ERROR"]
                     ELSE LET q1 == << q1_raw[1], q1_raw[2], q1_raw[3], q1_raw[4] >>
                              q2 == << q2_raw[1], q2_raw[2], q2_raw[3], q2_raw[4] >>
                              target_angles == TargetAngles(to_euler(q1), to_euler(q2))
                          IN [st |-> ApplyJoints(st, target_angles, 1),
                              result |-> "PASS_THROUGH"]
           ELSE [st |-> st, result |-> "PASS_THROUGH"]

\* The window manager hands a TIMER event to every modal handler, newest
\* first (timer events always pass on to the next handler).  A handler that
\* returns PASS_THROUGH stays; one that returns CANCELLED, or whose modal
\* raised, is removed.  kept: the handlers already passed.
RECURSIVE Dispatch(_, _, _)
Handled(r, kept, handlers) ==
  IF r.result = "PASS_THROUGH"
    THEN Dispatch(r.st, Append(kept, Head(handlers)), Tail(handlers))
    ELSE Dispatch([r.st EXCEPT !.err = FALSE], kept, Tail(handlers))

Dispatch(st, kept, handlers) ==
  IF handlers = << >> THEN [st |-> st, ops |-> kept]
  ELSE Handled(modalTimer(st, Head(handlers)), kept, handlers)

HostState ==
  [bones |-> bones, is_running |-> is_running, timers |-> timers,
   written |-> written, warnings |-> warnings, err |-> FALSE]

SetHost(st) ==
  /\ bones' = st.bones
  /\ is_running' = st.is_running
  /\ timers' = st.timers
  /\ written' = st.written
  /\ warnings' = st.warnings

\* a registered window timer fires: a TIMER event goes through the handlers
Tick ==
  /\ timers > 0
  /\ LET r == Dispatch(HostState, << >>, ops) IN
       /\ SetHost(r.st)
       /\ ops' = r.ops
  /\ lastEvent' = "tick"
  /\ UNCHANGED << stage, scene, latest_data, packet_count, receivers >>

\* the stop command: an ESC event reaches the newest handler, whose modal
\* returns self.cancel(context); the handler is removed and the event ends
\* there (CANCELLED does not pass the event on)
Stop ==
  /\ ops # << >>
  /\ SetHost([cancel(HostState, Head(ops)) EXCEPT !.err = FALSE])
  /\ ops' = Tail(ops)
  /\ lastEvent' = "stop"
  /\ UNCHANGED << stage, scene, latest_data, packet_count, receivers >>

\* the successful start of execute
Launch(armature_name) ==
  /\ Alive < MaxThreads /\ timers < MaxTimers
  /\ is_running' = TRUE
  /\ receivers' = [receivers EXCEPT !.open = @ + 1]
  /\ timers' = timers + 1
  /\ ops' = << [_armature_name |-> armature_name] >> \o ops
  /\ lastEvent' = "start_ok"
  /\ UNCHANGED << stage, scene, latest_data, packet_count,
                  bones, written, warnings >>

\* variant of execute without the "if not is_running" guard
executeNoGuard(active) ==
  LET byActive == active /\ scene.type = "ARMATURE"
      fallback == ObjFound("Armature")
  IN IF byActive \/ fallback
       THEN Launch(IF byActive THEN scene.name ELSE "Armature")
       ELSE /\ lastEvent' = "start_error"
            /\ UNCHANGED << stage, scene, is_running, latest_data, packet_count,
                            receivers >>
            /\ UNCHANGED hostVars

\* variant of execute that reports the error but does not return
executeNoAbort(active) ==
  IF is_running
    THEN /\ lastEvent' = "start_noop"
         /\ UNCHANGED << stage, scene, is_running, latest_data, packet_count,
                         receivers >>
         /\ UNCHANGED hostVars
    ELSE LET byActive == active /\ scene.type = "ARMATURE"
         IN Launch(IF byActive THEN scene.name ELSE "Armature")

\* execute(self, context): the start command on a new operator instance;
\* active: the scene object is the active object
execute(active) ==
  IF is_running
    THEN /\ lastEvent' = "start_noop"
         /\ UNCHANGED << stage, scene, is_running, latest_data, packet_count,
                         receivers >>
         /\ UNCHANGED hostVars
    ELSE LET byActive == active /\ scene.type = "ARMATURE"
             fallback == ObjFound("Armature")
             armature_name == IF byActive THEN scene.name ELSE "Armature"
         IN IF byActive \/ fallback
              THEN Launch(armature_name)
              ELSE /\ lastEvent' = "start_error"
                   /\ UNCHANGED << stage, scene, is_running, latest_data, packet_count,
                                   receivers >>
                   /\ UNCHANGED hostVars

Next ==
  \/ SerialOpenOk
  \/ SerialOpenFail
  \/ LoopTest
  \/ PollError
  \/ PollEmpty
  \/ ReadError
  \/ \E line \in Lines : ReadLine(line)
  \/ Tick
  \/ Stop
  \/ \E active \in BOOLEAN : execute(active)

Spec == Init /\ [][Next]_vars

\* a step of a receiver thread
ReceiverStep ==
  \/ SerialOpenOk
  \/ SerialOpenFail
  \/ LoopTest
  \/ PollError
  \/ PollEmpty
  \/ ReadError
  \/ \E line \in Lines : ReadLine(line)

\* The receiver threads are scheduled: a live thread takes its next step
\* (the open returns or raises; the poll and the read return within the
\* read timeout of 0.01 s).  Ticks and commands are under no obligation.
FairSpec == Spec /\ WF_vars(ReceiverStep)

TypeOK ==
  /\ stage \in {"link", "retarget"}
  /\ is_running \in BOOLEAN
  /\ packet_count \in 0..MaxPackets
  /\ Alive <= MaxThreads
  /\ timers \in 0..MaxTimers
  /\ Len(ops) <= timers
  /\ receivers.leaked \in BOOLEAN

\* ---------------------------------------------------------------- claims
\* the program's own state (everything but the history variables)
progVars == << stage, scene, bones, is_running, latest_data, packet_count,
               receivers, ops, timers >>

\* the configured joint bones the rig has
ExistingJointBones == AllBones \cap DOMAIN bones

\* the sensors a bone's rotation is taken from: the BONE_MAP key (Link Stage),
\* the sensors in the joint's row of the logic table (Retarget Stage)
SensorsOf(b) ==
  IF stage = "link"
    THEN { s \in DOMAIN BONE_MAP : BONE_MAP[s] = b }
    ELSE CASE b = "UpperArm.008" -> {IMU_SHOULDER_ID}
           [] b = "UpperArm.015" -> {IMU_SHOULDER_ID}
           [] b = "UpperArm.018" -> {IMU_SHOULDER_ID, IMU_FOREARM_ID}
           [] b = "UpperArm.019" -> {IMU_SHOULDER_ID, IMU_FOREARM_ID}
           [] b = "UpperArm.021" -> {IMU_FOREARM_ID}
           [] OTHER -> {}

\* a bone as the home reset leaves it when it was in rest pose before
HomeFromRest(b) ==
  LET n == CHOOSE k \in 1..Len(JOINT_MAP) : JOINT_MAP[k].bone = b IN
  [RestBone EXCEPT !.rotation_mode = "XYZ",
                   !.rotation_euler = SetAxis(@, JOINT_MAP[n].axis,
                                              radians(INITIAL_POSE[JOINT_MAP[n].joint]))]

\* every configured joint of the bone set bs is at its home angle
AtHome(bs) ==
  \A n \in 1..Len(JOINT_MAP) :
     JOINT_MAP[n].bone \in DOMAIN bs =>
        /\ bs[JOINT_MAP[n].bone].rotation_mode = "XYZ"
        /\ bs[JOINT_MAP[n].bone].rotation_euler =
              SetAxis(bs[JOINT_MAP[n].bone].rotation_euler, JOINT_MAP[n].axis,
                      radians(INITIAL_POSE[JOINT_MAP[n].joint]))

\* C1 (as claimed): Retarget Stage.  A tick taken while the shoulder or the
\* forearm sensor has no entry in the store modifies no bone; a tick taken
\* while both have an entry writes all six joints whose bones exist; and no
\* step leaves only some of the joints written by a tick.
C1_AllOrNothingGate ==
  [][ /\ (stage = "retarget" /\ ops # << >> /\ Tick) =>
            IF BothPresent(latest_data)
              THEN ExistingJointBones \subseteq written'.tick
              ELSE bones' = bones
      /\ stage = "retarget" =>
            \/ written'.tick = written.tick
            \/ ExistingJointBones \subseteq written'.tick ]_vars

\* C2 (as claimed): a bone is never written, by a tick or by the home reset
\* of the stop command, while one of its sensors has no entry in the store.
C2_NeverModifiedWithoutData ==
  \A b \in written.tick \cup written.home :
     \A s \in SensorsOf(b) : s \in DOMAIN latest_data

\* C2 (amended): no tick writes a bone while one of its sensors has no entry
\* in the store; a bone no tick has written is in rest pose, or (Retarget
\* Stage only) is as the stop command's home reset leaves a bone in rest pose.
C2_NoTickWriteWithoutData ==
  /\ written.home # {} => stage = "retarget"
  /\ \A b \in DOMAIN bones :
       /\ b \in written.tick => \A s \in SensorsOf(b) : s \in DOMAIN latest_data
       /\ b \notin written.tick =>
            \/ bones[b] = RestBone
            \/ b \in written.home /\ bones[b] = HomeFromRest(b)

\* C2 witness: Link Stage, a tick has written sensor 0's bone while sensor 1
\* has never sent a packet and its bone is still in rest pose
C2_Witness ==
  /\ stage = "link"
  /\ lastEvent = "tick"
  /\ 0 \in DOMAIN latest_data
  /\ 1 \notin DOMAIN latest_data
  /\ "UpperArm.008" \in written.tick
  /\ "UpperArm.021" \in DOMAIN bones
  /\ bones["UpperArm.021"] = RestBone

\* C3 (as claimed): the orientation store is empty whenever a start command
\* has just taken the controller from IDLE to RUNNING.
C3_StoreEmptyAtStart ==
  lastEvent = "start_ok" => latest_data = EmptyStore

\* C4 (as claimed): after a device-open failure or a device error that ends
\* the receiver, the controller is IDLE: the run flag is clear, no tick is
\* registered and no modal handler is left to run the mapping engine.
C4_IdleAfterDeviceError ==
  lastEvent \in {"open_fail", "poll_error"} =>
     /\ ~is_running
     /\ timers = 0
     /\ ops = << >>

\* C5: a start command issued while the run flag is set changes nothing of
\* the program's state: no receiver is launched, no tick or handler is
\* registered, and flag, store and bones are as before.
C5_StartWhileRunningIsNoop ==
  [][ (is_running /\ \E active \in BOOLEAN : execute(active)) =>
         /\ lastEvent' = "start_noop"
         /\ UNCHANGED progVars ]_vars

\* C5 witness: a start command has been issued while running
C5_Witness ==
  /\ lastEvent = "start_noop"
  /\ is_running
  /\ Alive > 0
  /\ ops # << >>

\* no rig can be resolved: the active object is not a rig and there is no
\* object named "Armature"
NoRigResolvable(active) ==
  /\ ~(active /\ scene.type = "ARMATURE")
  /\ scene.name # "Armature"

\* C6: a start command issued in IDLE when no rig can be resolved ends with
\* the error result and changes nothing of the program's state.
C6_StartWithoutRigFails ==
  [][ \A active \in BOOLEAN :
         (~is_running /\ NoRigResolvable(active) /\ execute(active)) =>
            /\ lastEvent' = "start_error"
            /\ UNCHANGED progVars ]_vars

\* C6 witness: a start command has failed in IDLE for lack of a rig
C6_Witness ==
  /\ lastEvent = "start_error"
  /\ ~is_running
  /\ NoRigResolvable(FALSE)

\* C7 (as claimed): every entry of the orientation store is a 4-element
\* rotation.
C7_StoreHoldsRotations ==
  \A k \in DOMAIN latest_data : Len(latest_data[k]) = 4

\* a line that fails to decode or parse: not brace-delimited, invalid JSON,
\* undecodable bytes, or a JSON object without the "id" or the "q" key
Unparsable(line) ==
  \/ line.kind # "obj"
  \/ ~line.has_id
  \/ ~line.has_q

UnparsableLines == { line \in Lines : Unparsable(line) }

\* C8: reading a line that fails to decode or parse leaves the store, the
\* run flag, the packet count and the host side unchanged, and the receiver
\* is back at the head of its loop, so whatever is read next is handled as
\* it would have been without that line.
C8_UnparsableLineDropped ==
  [][ \A line \in UnparsableLines :
         (lastEvent' \in {"line_dropped", "line_stored"} /\ ReadLine(line)) =>
            /\ UNCHANGED << latest_data, is_running, packet_count, bones, ops, timers >>
            /\ receivers'.loop = receivers.loop + 1
            /\ Alive' = Alive ]_vars

\* C8 witness: a line has been dropped after a valid packet, and the
\* receiver is still in its loop with the run flag set
C8_Witness ==
  /\ lastEvent = "line_dropped"
  /\ latest_data # EmptyStore
  /\ is_running
  /\ receivers.loop > 0

\* C9 (as claimed): after a device error in the receiver loop, raised by the
\* poll for available bytes or by the read of a line, the run flag is clear.
C9_DeviceErrorClearsFlag ==
  lastEvent \in {"poll_error", "read_error"} => ~is_running

\* C10 (as claimed): Retarget Stage.  A stop command leaves every configured
\* joint at its home angle, the run flag clear and its tick deregistered; and
\* the step after a stop, unless it is a new start, leaves every joint at its
\* home angle.
C10_StopHomesJoints ==
  [][ /\ (stage = "retarget" /\ Stop) =>
            /\ AtHome(bones')
            /\ ~is_running'
            /\ timers' = timers - 1
      /\ (stage = "retarget" /\ lastEvent = "stop" /\ lastEvent' # "start_ok") =>
            AtHome(bones') ]_vars

\* the lines that are stored
StoredLines == { line \in Lines : Stores(line) }

\* C11: the store changes only when a receiver stores a packet, and then the
\* entry of the packet's id is the packet's complete "q" and no other entry
\* changes; a tick leaves the store alone, and a bone it changes carries the
\* rotation computed from the complete entries of the store as they are at
\* the tick (Link Stage: the relabelled entry of the bone's sensor; Retarget
\* Stage: the angles derived from the two entries), never from a mix of two
\* packets.
C11_NoTornRead ==
  [][ /\ lastEvent' = "line_stored" =>
            \A line \in StoredLines :
               ReadLine(line) => latest_data' = Put(latest_data, line.id, line.q)
      /\ lastEvent' # "line_stored" => latest_data' = latest_data
      /\ \A k \in DOMAIN latest_data' :
            \E line \in StoredLines : line.id = k /\ line.q = latest_data'[k]
      /\ (lastEvent' = "tick" /\ stage = "link" /\ Tick) =>
            \A s \in DOMAIN BONE_MAP :
               (BONE_MAP[s] \in DOMAIN bones /\ bones'[BONE_MAP[s]] # bones[BONE_MAP[s]]) =>
                  /\ s \in DOMAIN latest_data
                  /\ Len(latest_data[s]) = 4
                  /\ bones'[BONE_MAP[s]].rotation_quaternion = Relabel(latest_data[s])
      /\ (lastEvent' = "tick" /\ stage = "retarget" /\ bones' # bones /\ Tick) =>
            /\ BothPresent(latest_data)
            /\ Len(latest_data[IMU_SHOULDER_ID]) = 4
            /\ Len(latest_data[IMU_FOREARM_ID]) = 4
            /\ \A n \in 1..Len(JOINT_MAP) :
                  JOINT_MAP[n].bone \in DOMAIN bones =>
                     bones'[JOINT_MAP[n].bone].rotation_euler =
                        SetAxis(bones[JOINT_MAP[n].bone].rotation_euler, JOINT_MAP[n].axis,
                                TargetAngles(to_euler(latest_data[IMU_SHOULDER_ID]),
                                             to_euler(latest_data[IMU_FOREARM_ID]))
                                   [JOINT_MAP[n].joint]) ]_vars

\* C11 witness: Link Stage, a tick has applied the first packet of sensor 0,
\* and a second, different packet for sensor 0 is in the store before the
\* next tick reads it
C11_Witness ==
  /\ stage = "link"
  /\ lastEvent = "line_stored"
  /\ packet_count = 2
  /\ DOMAIN latest_data = {0}
  /\ Len(latest_data[0]) = 4
  /\ "UpperArm.008" \in written.tick
  /\ bones["UpperArm.008"].rotation_quaternion # Relabel(latest_data[0])

\* the store holds only 4-element rotations: only valid packets have been
\* received for the ids it has
OnlyValidEntries ==
  \A k \in DOMAIN latest_data : Len(latest_data[k]) = 4

\* C12: Link Stage.  A valid packet replaces the entry of its sensor id and
\* adds no second one; and a tick taken by a registered handler while the
\* store holds only valid packets leaves the bone of every mapped sensor
\* that has an entry, if the rig has the bone, in QUATERNION mode with the
\* rotation (w, y, x, -z) of the sensor's last packet (w, x, y, z): the
\* offset is the identity, and no earlier packet has an effect.
C12_LastWriteWins ==
  [][ /\ (stage = "link" /\ lastEvent' = "line_stored") =>
           \A line \in StoredLines :
              (Len(line.q) = 4 /\ ReadLine(line)) =>
                 /\ latest_data'[line.id] = line.q
                 /\ DOMAIN latest_data' = DOMAIN latest_data \cup {line.id}
      /\ (stage = "link" /\ lastEvent' = "tick" /\ ops # << >> /\ OnlyValidEntries /\ Tick) =>
           \A s \in DOMAIN BONE_MAP :
              (s \in DOMAIN latest_data /\ BONE_MAP[s] \in DOMAIN bones) =>
                 LET q == latest_data[s] IN
                 /\ bones'[BONE_MAP[s]].rotation_mode = "QUATERNION"
                 /\ bones'[BONE_MAP[s]].rotation_quaternion = << q[1], q[3], q[2], -q[4] >>
                 /\ bones'[BONE_MAP[s]].rotation_quaternion =
                       QMul(<< q[1], q[3], q[2], -q[4] >>, Identity) ]_vars

\* C12 witness: Link Stage, two packets have been stored for sensor 0 and a
\* tick has applied the second, (1, 1, 1, 1), as (1, 1, 1, -1)
C12_Witness ==
  /\ stage = "link"
  /\ lastEvent = "tick"
  /\ packet_count = 2
  /\ DOMAIN latest_data = {0}
  /\ latest_data[0] = <<1, 1, 1, 1>>
  /\ "UpperArm.008" \in DOMAIN bones
  /\ bones["UpperArm.008"].rotation_quaternion = <<1, 1, 1, -1>>

\* the scene object is a rig that lacks one of the configured bones
BoneMissing ==
  /\ scene.type = "ARMATURE"
  /\ AllBones \ DOMAIN bones # {}

\* C13: a tick taken by registered handlers on a rig that lacks a configured
\* bone, the store holding valid packets, skips the missing bone only: every
\* sensor's bone (Link Stage) or joint's bone (Retarget Stage, both sensors
\* present) that the rig has is written with its value in that tick, no
\* handler is removed (no error is raised), and run flag and timers stay.
C13_MissingBoneIsolated ==
  [][ (lastEvent' = "tick" /\ BoneMissing /\ OnlyValidEntries /\ ops # << >> /\ Tick) =>
         /\ ops' = ops
         /\ is_running' = is_running
         /\ timers' = timers
         /\ DOMAIN bones' = DOMAIN bones
         /\ stage = "link" =>
              \A s \in DOMAIN BONE_MAP \cap DOMAIN latest_data :
                 BONE_MAP[s] \in DOMAIN bones =>
                    /\ BONE_MAP[s] \in written'.tick
                    /\ bones'[BONE_MAP[s]].rotation_quaternion =
                          << latest_data[s][1], latest_data[s][3],
                             latest_data[s][2], -latest_data[s][4] >>
         /\ (stage = "retarget" /\ BothPresent(latest_data)) =>
              \A n \in 1..Len(JOINT_MAP) :
                 JOINT_MAP[n].bone \in DOMAIN bones =>
                    /\ JOINT_MAP[n].bone \in written'.tick
                    /\ bones'[JOINT_MAP[n].bone].rotation_mode = "XYZ"
                    /\ bones'[JOINT_MAP[n].bone].rotation_euler =
                          SetAxis(bones[JOINT_MAP[n].bone].rotation_euler, JOINT_MAP[n].axis,
                                  TargetAngles(to_euler(latest_data[IMU_SHOULDER_ID]),
                                               to_euler(latest_data[IMU_FOREARM_ID]))
                                     [JOINT_MAP[n].joint]) ]_vars

\* C13 witness: Retarget Stage on a rig without the Base joint's bone; a tick
\* has written the other five joints and the handler is still registered
C13_Witness ==
  /\ stage = "retarget"
  /\ lastEvent = "tick"
  /\ BoneMissing
  /\ "UpperArm.008" \notin DOMAIN bones
  /\ OnlyValidEntries
  /\ written.tick = AllBones \ {"UpperArm.008"}
  /\ ops # << >>
  /\ is_running

\* the rotation_euler a tick must leave on a bone: e with one axis replaced
\* (1: X, 2: Y, 3: Z)
AxisSet(e, i, angle) == [e EXCEPT ![i] = angle]

\* C14: Retarget Stage.  The logic table maps the shoulder triple (yaw 30,
\* pitch 10, roll 0) and the forearm pitch 25, roll 5 to 30, 10, 15, 5, 0, 5;
\* and a tick taken by a registered handler with valid packets of both
\* sensors in the store writes, to every joint bone the rig has, mode XYZ and
\* on the joint's axis only: Base (Z) shoulder yaw, Shoulder (X) shoulder
\* pitch, Elbow (X) forearm pitch - shoulder pitch, Wrist (Y) forearm roll -
\* shoulder roll, Wrist_2 (X) 0, Gripper (Y) forearm roll.
C14_Derivation ==
  [][ /\ TargetAngles(<<0, 10, 30>>, <<5, 25, 0>>) =
            [Base |-> 30, Shoulder |-> 10, Elbow |-> 15,
             Wrist |-> 5, Wrist_2 |-> 0, Gripper |-> 5]
      /\ TargetAngles(<<2, 1, -1>>, <<-1, -2, 1>>) =
            [Base |-> -1, Shoulder |-> 1, Elbow |-> -3,
             Wrist |-> -3, Wrist_2 |-> 0, Gripper |-> -1]
      /\ (/\ stage = "retarget" /\ lastEvent' = "tick"
          /\ scene.type = "ARMATURE" /\ ops # << >>
          /\ BothPresent(latest_data) /\ OnlyValidEntries /\ Tick) =>
            LET sh == to_euler(latest_data[IMU_SHOULDER_ID])
                fo == to_euler(latest_data[IMU_FOREARM_ID])
                roll(e) == e[1]
                pitch(e) == e[2]
                yaw(e) == e[3]
                Written(b, i, angle) ==
                  b \in DOMAIN bones =>
                     /\ bones'[b].rotation_mode = "XYZ"
                     /\ bones'[b].rotation_euler = AxisSet(bones[b].rotation_euler, i, angle)
            IN /\ Written("UpperArm.008", 3, yaw(sh))
               /\ Written("UpperArm.015", 1, pitch(sh))
               /\ Written("UpperArm.018", 1, pitch(fo) - pitch(sh))
               /\ Written("UpperArm.019", 2, roll(fo) - roll(sh))
               /\ Written("UpperArm.020", 1, 0)
               /\ Written("UpperArm.021", 2, roll(fo)) ]_vars

\* C14 witness: a tick has applied the shoulder triple (roll 0, pitch 1,
\* yaw 1) and the forearm triple (roll 1, pitch 0, yaw 0) to the six joints
C14_Witness ==
  /\ stage = "retarget"
  /\ lastEvent = "tick"
  /\ ops # << >>
  /\ DOMAIN latest_data = {0, 1}
  /\ latest_data[IMU_SHOULDER_ID] = <<1, 1, 1, 1>>
  /\ latest_data[IMU_FOREARM_ID] = <<1, 1, 0, 0>>
  /\ DOMAIN bones = AllBones
  /\ bones["UpperArm.008"].rotation_euler = <<0, 0, 1>>
  /\ bones["UpperArm.015"].rotation_euler = <<1, 0, 0>>
  /\ bones["UpperArm.018"].rotation_euler = <<-1, 0, 0>>
  /\ bones["UpperArm.019"].rotation_euler = <<0, 1, 0>>
  /\ bones["UpperArm.020"].rotation_euler = <<0, 0, 0>>
  /\ bones["UpperArm.021"].rotation_euler = <<0, 1, 0>>

\* C15 (as claimed): no receiver thread has ended with the port it opened
\* still open.
C15_PortReleasedAtExit ==
  ~receivers.leaked

\* C16 (as claimed): every registered operator instance, and so every tick,
\* has for its target an object of the scene that is a rig.
C16_TargetIsRig ==
  \A i \in 1..Len(ops) :
     /\ ObjFound(ops[i]._armature_name)
     /\ scene.type = "ARMATURE"

\* C17 (as claimed): the missing-bone warnings of a run are bounded.  A tick
\* that prints a warning and leaves the program's state as it was can be
\* repeated with the same result without end, so a bound requires that no
\* tick prints a warning without changing the program's state.
C17_WarningsBounded ==
  [][ ~(/\ lastEvent' = "tick"
        /\ warnings' > warnings
        /\ UNCHANGED progVars) ]_vars

\* C18: with the receiver threads scheduled, a stop command leads to a state
\* where every receiver thread has ended, unless a start command sets the
\* run flag again first.
C18_ReceiverExitsAfterStop ==
  (lastEvent = "stop") ~> (Alive = 0 \/ lastEvent = "start_ok")

\* C18 witness: the last receiver has left its loop and ended after packets
\* were received and every registered tick was removed by a stop command
C18_Witness ==
  /\ lastEvent = "receiver"
  /\ Alive = 0
  /\ ~is_running
  /\ ~receivers.leaked
  /\ packet_count > 0
  /\ timers = 0
  /\ ops = << >>

\* C19 (as claimed): at most one receiver thread is alive.
C19_OneReceiverAlive ==
  Alive <= 1

\* C20 (as claimed): at most one window timer is registered, and at most one
\* operator instance handles its ticks.
C20_OneTickRegistered ==
  /\ timers <= 1
  /\ Len(ops) <= 1

====
